---- MODULE Spec2Model ----
(***************************************************************************)
(* Model of ansible_variables/cli/variables.py: VariablesCLI.run and       *)
(* VariablesCLI.delete_var.                                                *)
(*                                                                         *)
(* Text is a sequence of one-character strings.  A file on disk is the     *)
(* sequence of its characters; delete_var reads it with Python's text mode *)
(* (universal newlines), filters the lines and writes them back.           *)
(*                                                                         *)
(* Two specifications share the variables:                                 *)
(*   SpecRemover  delete_var called directly on one file, for every file   *)
(*                of up to MaxLines lines;                                 *)
(*   Spec         one invocation of run over a small inventory.            *)
(***************************************************************************)
EXTENDS Naturals, Sequences, FiniteSets

VARIABLES
    fs,         \* the disk: path -> characters of the file
    fs0,        \* the disk when the program started (history)
    calls,      \* history of delete_var calls: path, var, outcome, content before
    console,    \* tracebacks printed by delete_var's except clause
    pc,         \* position of run: start, host, var, dup, done, error; lib in SpecRemover
    args,       \* context.CLIARGS
    hosts,      \* result of inventory.get_hosts
    hi,         \* index of the host the for loop of line 143 is at
    groups,     \* the list `groups` of line 141
    variables,  \* what variable_sources yields for the current host
    vi,         \* index of the variable the for loop of line 150 is at
    dups,       \* `dups` of line 161 for the current variable
    di,         \* index of the dup the for loop of line 168 is at
    out,        \* what rich.print has printed, in order
    cur         \* history: the variable last processed and what was done for it

vars == <<fs, fs0, calls, console, pc, args, hosts, hi, groups, variables, vi,
          dups, di, out, cur>>

(***************************************************************************)
(* Characters                                                              *)
(***************************************************************************)
LF == "\n"
CR == "\r"
SP == " "
TAB == "\t"

\* os.linesep of the platform ansible runs on (POSIX control node)
linesep == <<LF>>

None == "None"

(***************************************************************************)
(* Sequences helpers                                                       *)
(***************************************************************************)
RECURSIVE Flatten(_)
Flatten(ss) == IF ss = <<>> THEN <<>> ELSE Head(ss) \o Flatten(Tail(ss))

Prefix(s, k) == SubSeq(s, 1, k)

Range(s) == {s[i] : i \in DOMAIN s}

\* str.startswith(prefix)
StartsWith(line, prefix) ==
    /\ Len(line) >= Len(prefix)
    /\ SubSeq(line, 1, Len(prefix)) = prefix

(***************************************************************************)
(* delete_var (lines 173-193)                                              *)
(***************************************************************************)

\* fr.readlines() of a file opened with open(path, 'r'): newline=None, so
\* "\n", "\r\n" and "\r" all end a line and each is returned as "\n"; a last
\* line without a line ending is returned as it is.
RECURSIVE SplitLines(_, _, _)
SplitLines(bytes, i, line) ==
    IF i > Len(bytes)
    THEN IF line = <<>> THEN <<>> ELSE <<line>>
    ELSE IF bytes[i] = LF
    THEN <<Append(line, LF)>> \o SplitLines(bytes, i + 1, <<>>)
    ELSE IF bytes[i] = CR
    THEN <<Append(line, LF)>> \o
         SplitLines(bytes, IF i < Len(bytes) /\ bytes[i + 1] = LF THEN i + 2 ELSE i + 1, <<>>)
    ELSE SplitLines(bytes, i + 1, Append(line, bytes[i]))

ReadLines(bytes) == SplitLines(bytes, 1, <<>>)

IndentedSpaceOnly(line) == StartsWith(line, <<SP>>)

\* line.startswith((' ', '\t'))
Indented(line) == StartsWith(line, <<SP>>) \/ StartsWith(line, <<TAB>>)

\* A scan that stops removing after the first block.
RECURSIVE ScanOnce(_, _, _, _, _)
ScanOnce(lines, i, var_found, removed, var) ==
    IF i > Len(lines) THEN <<>>
    ELSE LET inside == var_found /\ Indented(lines[i])
             starts == ~removed /\ StartsWith(lines[i], var)
         IN  IF starts \/ inside
             THEN ScanOnce(lines, i + 1, TRUE, removed \/ starts, var)
             ELSE <<lines[i]>> \o ScanOnce(lines, i + 1, FALSE, removed, var)

ScanFirstOnly(lines, i, var_found, var) == ScanOnce(lines, i, var_found, FALSE, var)

\* The loop of lines 182-191 from line i on, entered with the flag var_found:
\* the lines passed to fw.write, in order.
RECURSIVE Scan(_, _, _, _)
Scan(lines, i, var_found, var) ==
    IF i > Len(lines) THEN <<>>
    ELSE LET found == IF var_found THEN Indented(lines[i]) ELSE FALSE
         IN  IF StartsWith(lines[i], var) \/ found
             THEN Scan(lines, i + 1, TRUE, var)
             ELSE <<lines[i]>> \o Scan(lines, i + 1, found, var)

\* What delete_var writes when nothing fails.
Written(bytes, var) == Scan(ReadLines(bytes), 1, FALSE, var)

\* fw.write(line) on a file opened with open(path, 'w'): newline=None, so
\* every "\n" is written as os.linesep.
RECURSIVE TranslateOut(_)
TranslateOut(line) ==
    IF line = <<>> THEN <<>>
    ELSE (IF Head(line) = LF THEN linesep ELSE <<Head(line)>>) \o TranslateOut(Tail(line))

WriteLines(lines) == Flatten([i \in DOMAIN lines |-> TranslateOut(lines[i])])

\* How one call can end.  ok: no exception.  read_fail: open(path, 'r') or
\* readlines raises.  open_fail: open(path, 'w') raises.  write_fail: the file
\* was opened for writing (truncated) and a write or the closing flush raises
\* after k lines reached the disk.
Outcomes(bytes, var) ==
    {[kind |-> "ok", k |-> Len(Written(bytes, var))],
     [kind |-> "read_fail", k |-> 0],
     [kind |-> "open_fail", k |-> 0]}
    \cup {[kind |-> "write_fail", k |-> k - 1] : k \in 1..Len(Written(bytes, var))}

\* The file after the call.
DeleteResult(bytes, var, o) ==
    IF o.kind \in {"read_fail", "open_fail"} THEN bytes
    ELSE WriteLines(Prefix(Written(bytes, var), o.k))

\* delete_var(path, var) ending with outcome o.  The except clause of lines
\* 192-193 prints the traceback and the call returns None either way.
delete_var(path, var, o) ==
    /\ fs' = [fs EXCEPT ![path] = DeleteResult(fs[path], var, o)]
    /\ calls' = Append(calls, [path |-> path, var |-> var, outcome |-> o.kind,
                               before |-> fs[path], ret |-> None])
    /\ console' = IF o.kind = "ok" THEN console
                  ELSE Append(console, [exception |-> o.kind, path |-> path])

(***************************************************************************)
(* SpecRemover: one direct call of delete_var on one file                  *)
(***************************************************************************)
MaxLines == 4

Target == "vars.yml"

KeyLine == <<"k", ":">>

\* The texts a line of the file can hold, without its line ending.
Bodies ==
    { KeyLine,              \* the variable's key at column 0
      <<"k", ":", "v">>,    \* the key with an inline value
      <<SP, "v">>,          \* a line indented with a space
      <<TAB, "v">>,         \* a line indented with a tab
      <<>>,                 \* a blank line at column 0
      <<"o", ":">>,         \* another key at column 0
      <<"k", "k", ":">> }   \* a longer name that starts with the variable's

EndOfLine == {<<LF>>, <<CR, LF>>}

\* The file made of the given line texts, every line ended by eol, the last
\* one only when final.
MakeFile(bodies, eol, final) ==
    Flatten([i \in DOMAIN bodies |->
                bodies[i] \o (IF i < Len(bodies) \/ final THEN eol ELSE <<>>)])

FileContents ==
    { MakeFile(b, eol, final) :
        b \in UNION {[1..n -> Bodies] : n \in 0..MaxLines},
        eol \in EndOfLine, final \in BOOLEAN }

RemoverVars == {KeyLine}

NoArgs == [host |-> None, variable |-> None, check_duplicates |-> FALSE,
           remove_duplicates |-> FALSE, verbosity |-> 0]

NoVar == [host |-> None, name |-> None, scanned |-> FALSE, dups |-> <<>>,
          targets |-> <<>>, mark |-> 0]

InitRemover ==
    /\ \E c \in FileContents : fs = [p \in {Target} |-> c]
    /\ fs0 = fs
    /\ calls = <<>>
    /\ console = <<>>
    /\ pc = "lib"
    /\ args = NoArgs
    /\ hosts = <<>>
    /\ hi = 0
    /\ groups = <<>>
    /\ variables = <<>>
    /\ vi = 0
    /\ dups = <<>>
    /\ di = 0
    /\ out = <<>>
    /\ cur = NoVar

CallDeleteVar ==
    /\ pc = "lib"
    /\ \E var \in RemoverVars : \E o \in Outcomes(fs[Target], var) :
          delete_var(Target, var, o)
    /\ pc' = "returned"
    /\ UNCHANGED <<fs0, args, hosts, hi, groups, variables, vi, dups, di, out, cur>>

NextRemover == CallDeleteVar

SpecRemover == InitRemover /\ [][NextRemover]_vars

(***************************************************************************)
(* What a block is, stated on line numbers and independently of the scan   *)
(***************************************************************************)

\* The lines that begin at column 0 with the key.
KeyLines(lines, var) == {i \in DOMAIN lines : StartsWith(lines[i], var)}

\* The first line after line i that starts with neither a space nor a tab,
\* or one past the end of the file.
BlockEnd(lines, i) ==
    CHOOSE j \in (i + 1)..(Len(lines) + 1) :
        /\ \A m \in (i + 1)..(j - 1) :
              lines[m][1] \in {SP, TAB}
        /\ j <= Len(lines) => lines[j][1] \notin {SP, TAB}

\* The block of the key line i: the key line and its continuation lines.
Block(lines, i) == i..(BlockEnd(lines, i) - 1)

AllBlocks(lines, var) == UNION {Block(lines, i) : i \in KeyLines(lines, var)}

FirstKey(lines, var) ==
    CHOOSE i \in KeyLines(lines, var) : \A j \in KeyLines(lines, var) : i <= j

\* The lines whose numbers are not in dropped, in order.
RECURSIVE RemainingFrom(_, _, _)
RemainingFrom(lines, dropped, i) ==
    IF i > Len(lines) THEN <<>>
    ELSE (IF i \in dropped THEN <<>> ELSE <<lines[i]>>)
         \o RemainingFrom(lines, dropped, i + 1)

Remaining(lines, dropped) == RemainingFrom(lines, dropped, 1)

\* The lines of a file as they are on disk, each with its own line ending.
RECURSIVE RawSplit(_, _, _)
RawSplit(bytes, i, line) ==
    IF i > Len(bytes)
    THEN IF line = <<>> THEN <<>> ELSE <<line>>
    ELSE IF bytes[i] = CR /\ i < Len(bytes) /\ bytes[i + 1] = LF
    THEN <<line \o <<CR, LF>>>> \o RawSplit(bytes, i + 2, <<>>)
    ELSE IF bytes[i] \in {CR, LF}
    THEN <<Append(line, bytes[i])>> \o RawSplit(bytes, i + 1, <<>>)
    ELSE RawSplit(bytes, i + 1, Append(line, bytes[i]))

RawLines(bytes) == RawSplit(bytes, 1, <<>>)

(***************************************************************************)
(* Claims about delete_var, under SpecRemover                              *)
(***************************************************************************)
Returned == pc = "returned"

TheCall == calls[1]

LinesBefore == ReadLines(TheCall.before)

LinesAfter == ReadLines(fs[Target])

ReturnedOk == Returned /\ TheCall.outcome = "ok"

\* C1, as stated: one call removes exactly one block, the first; a later
\* column-0 line that begins with the key is still in the file afterwards.
C1_OnlyFirstBlockRemoved ==
    (ReturnedOk /\ KeyLines(LinesBefore, TheCall.var) # {}) =>
        LinesAfter = Remaining(LinesBefore,
                               Block(LinesBefore, FirstKey(LinesBefore, TheCall.var)))

\* C1, amended: one call removes every block of the variable: each column-0
\* line that begins with the key, with its continuation lines, and nothing
\* else; no line of the file begins with the key afterwards.
C1_EveryBlockRemoved ==
    ReturnedOk =>
        /\ LinesAfter = Remaining(LinesBefore, AllBlocks(LinesBefore, TheCall.var))
        /\ KeyLines(LinesAfter, TheCall.var) = {}

C1_Witness ==
    /\ ReturnedOk
    /\ Cardinality(KeyLines(LinesBefore, TheCall.var)) >= 2
    /\ LinesAfter # <<>>

\* C3: every line outside the deleted blocks is kept byte for byte, with its
\* own line ending, in order, and no line is added; a file with no matching
\* line is byte-identical afterwards.
C3_KeptBytesUnchanged ==
    ReturnedOk =>
        fs[Target] = Flatten(Remaining(RawLines(TheCall.before),
                                       AllBlocks(LinesBefore, TheCall.var)))

\* C4: in a file with exactly one column-0 line that begins with the key, the
\* deleted lines are that line and the maximal run of lines after it that
\* start with a space or a tab; the first line that does not, and all after
\* it, are kept; a block that runs to the end of the file is deleted whole.
C4_BlockBoundary ==
    (ReturnedOk /\ Cardinality(KeyLines(LinesBefore, TheCall.var)) = 1) =>
        LET i == FirstKey(LinesBefore, TheCall.var)
            j == BlockEnd(LinesBefore, i)
        IN  /\ Len(LinesAfter) = Len(LinesBefore) - (j - i)
            /\ \A n \in 1..(i - 1) : LinesAfter[n] = LinesBefore[n]
            /\ \A n \in j..Len(LinesBefore) : LinesAfter[n - (j - i)] = LinesBefore[n]

C4_Witness ==
    /\ ReturnedOk
    /\ Cardinality(KeyLines(LinesBefore, TheCall.var)) = 1
    /\ LET i == FirstKey(LinesBefore, TheCall.var)
           j == BlockEnd(LinesBefore, i)
       IN  /\ i > 1
           /\ j = i + 2
           /\ j <= Len(LinesBefore)
           /\ LinesBefore[j] = <<LF>>
           /\ Len(LinesAfter) = 2

\* C6: after a failed call the file holds what it held before the call or
\* the complete new content, never a truncated file or a prefix.
C6_NoPartialRewrite ==
    (Returned /\ TheCall.outcome # "ok") =>
        fs[Target] \in {TheCall.before,
                        WriteLines(Written(TheCall.before, TheCall.var))}

(***************************************************************************)
(* The collaborators of run: the inventory, the variable manager and       *)
(* Variable.file_occurrences                                               *)
(***************************************************************************)
INTERNAL_VARS ==
    {"ansible_diff_mode", "ansible_config_file", "ansible_facts", "ansible_forks",
     "ansible_inventory_sources", "ansible_limit", "ansible_playbook_python",
     "ansible_run_tags", "ansible_skip_tags", "ansible_verbosity", "ansible_version",
     "inventory_dir", "inventory_file", "inventory_hostname",
     "inventory_hostname_short", "groups", "group_names", "omit", "playbook_dir"}

\* The inventory: three hosts, in inventory order, and each host's groups as
\* host.get_groups() lists them.
Inventory == <<"web1", "web2", "db1">>

get_groups(host) ==
    CASE host = "web1" -> <<"all", "web">>
      [] host = "web2" -> <<"all", "web">>
      [] host = "db1" -> <<"all", "db">>

\* inventory.get_hosts(pattern): a host name, a group name, or nothing.
get_hosts(pattern) ==
    LET Matches(h) == pattern = h \/ pattern \in Range(get_groups(h))
    IN  SelectSeq(Inventory, Matches)

Patterns == {"all", "web", "web1", "db1", "nosuchhost"}

\* The vars files of the inventory directory.
Paths == {"host_vars/web1", "group_vars/web", "group_vars/all"}

HostVarsFile(host) ==
    CASE host = "web1" -> "host_vars/web1"
      [] host = "web2" -> "host_vars/web2"
      [] host = "db1" -> "host_vars/db1"

GroupVarsFile(group) ==
    CASE group = "all" -> "group_vars/all"
      [] group = "web" -> "group_vars/web"
      [] group = "db" -> "group_vars/db"

Reverse(s) == [i \in DOMAIN s |-> s[Len(s) + 1 - i]]

\* The files that can define a variable of the host, highest precedence
\* first: its host_vars file, then its groups' files from the most specific.
Chain(host) ==
    LET all == <<HostVarsFile(host)>> \o
               [i \in DOMAIN get_groups(host) |-> GroupVarsFile(Reverse(get_groups(host))[i])]
        Exists(p) == p \in DOMAIN fs
    IN  SelectSeq(all, Exists)

\* The characters of the variable names of the model.
NameChars(name) ==
    CASE name = "a" -> <<"a">>
      [] name = "b" -> <<"b">>
      [] name = "omit" -> <<"o", "m", "i", "t">>
      [] name = "groups" -> <<"g", "r", "o", "u", "p", "s">>

\* variable.name + ":"
Key(name) == NameChars(name) \o <<":">>

\* The names the vars files can define and the ones the variable manager
\* always adds (magic variables).
FileNames == <<"a", "b", "omit">>

MagicNames == <<"groups", "omit">>

NameOrder == <<"a", "b", "groups", "omit">>

\* The file defines the name at its top level: some line begins, at column
\* 0, with the name followed by the separator.
DefinesTop(bytes, name) ==
    \E i \in DOMAIN ReadLines(bytes) : StartsWith(ReadLines(bytes)[i], Key(name))

\* The files of the host's chain in which the name occurs, in precedence
\* order, on the given disk.
OccurrencesOn(disk, host, name) ==
    LET Has(p) == DefinesTop(disk[p], name)
    IN  SelectSeq(Chain(host), Has)

\* The text after the key on the first defining line.
ValueIn(bytes, name) ==
    LET lines == ReadLines(bytes)
        i == CHOOSE n \in DOMAIN lines :
                /\ StartsWith(lines[n], Key(name))
                /\ \A m \in 1..(n - 1) : ~StartsWith(lines[m], Key(name))
        NotEol(c) == c # LF
    IN  SelectSeq(SubSeq(lines[i], Len(Key(name)) + 1, Len(lines[i])), NotEol)

\* variable_sources(variable_manager, host, var): one Variable per resolved
\* name, its value and source taken from the highest-precedence file that
\* defines it; magic variables come from the variable manager itself.
variable_sources(host, var) ==
    LET Resolved(n) ==
            /\ var = None \/ var = n
            /\ \/ n \in Range(MagicNames)
               \/ n \in Range(FileNames) /\ OccurrencesOn(fs, host, n) # <<>>
        names == SelectSeq(NameOrder, Resolved)
        Make(n) ==
            IF n \in Range(MagicNames)
            THEN [name |-> n, value |-> <<>>, source |-> "magic"]
            ELSE [name |-> n,
                  value |-> ValueIn(fs[OccurrencesOn(fs, host, n)[1]], n),
                  source |-> OccurrencesOn(fs, host, n)[1]]
    IN  [i \in DOMAIN names |-> Make(names[i])]

\* variable.file_occurrences(loader, check_duplicates): the files where the
\* variable occurs and, when duplicates are asked for, the same list as dups.
file_occurrences(host, name, check_duplicates) ==
    [files |-> OccurrencesOn(fs, host, name),
     dups |-> IF check_duplicates THEN OccurrencesOn(fs, host, name) ELSE <<>>]

\* The contents a vars file starts with.
RunContents ==
    { <<>>,
      <<"a", ":", "1", LF>>,
      <<"a", ":", LF, SP, "x", LF, "b", ":", "2", LF>>,
      <<"o", "m", "i", "t", ":", "1", LF, "a", ":", "2", LF>> }

(***************************************************************************)
(* run (lines 128-171)                                                     *)
(***************************************************************************)

\* What rich.print prints.
Header(host, group) ==
    [kind |-> "header", subject |-> host, detail |-> group, value |-> <<>>, deleted |-> FALSE]

ValueLine(v) ==
    [kind |-> "value", subject |-> v.name, detail |-> v.source, value |-> v.value, deleted |-> FALSE]

FileLine(name, path) ==
    [kind |-> "file", subject |-> name, detail |-> path, value |-> <<>>, deleted |-> FALSE]

OriginallyIn(name, path) ==
    [kind |-> "original", subject |-> name, detail |-> path, value |-> <<>>, deleted |-> FALSE]

DuplicatedIn(name, path, deleted) ==
    [kind |-> "duplicate", subject |-> name, detail |-> path, value |-> <<>>, deleted |-> deleted]

Init ==
    /\ fs \in [Paths -> RunContents]
    /\ fs0 = fs
    /\ calls = <<>>
    /\ console = <<>>
    /\ pc = "start"
    /\ args \in [host : Patterns, variable : {None, "a", "omit"},
                 check_duplicates : BOOLEAN, remove_duplicates : BOOLEAN,
                 verbosity : {0, 1}]
    /\ hosts = <<>>
    /\ hi = 0
    /\ groups = <<>>
    /\ variables = <<>>
    /\ vi = 0
    /\ dups = <<>>
    /\ di = 0
    /\ out = <<>>
    /\ cur = NoVar

\* Line 137 with no host matched, but without the check of lines 138-139.
RunNoHostsUnchecked ==
    /\ pc = "start"
    /\ get_hosts(args.host) = <<>>
    /\ hosts' = get_hosts(args.host)
    /\ groups' = <<>>
    /\ hi' = 1
    /\ pc' = "host"
    /\ UNCHANGED <<fs, fs0, calls, console, args, variables, vi, dups, di, out, cur>>

\* Lines 137-139: no host matches the pattern, AnsibleOptionsError is raised.
RunNoHosts ==
    /\ pc = "start"
    /\ get_hosts(args.host) = <<>>
    /\ hosts' = get_hosts(args.host)
    /\ pc' = "error"
    /\ UNCHANGED <<fs, fs0, calls, console, args, hi, groups, variables, vi, dups, di, out, cur>>

\* Lines 137-141: some host matches; the loop over the hosts begins.
RunStart ==
    /\ pc = "start"
    /\ get_hosts(args.host) # <<>>
    /\ hosts' = get_hosts(args.host)
    /\ groups' = <<>>
    /\ hi' = 1
    /\ pc' = "host"
    /\ UNCHANGED <<fs, fs0, calls, console, args, variables, vi, dups, di, out, cur>>

\* host.get_groups()[-1]
LastGroup(host) == get_groups(host)[Len(get_groups(host))]

\* Lines 144-146: the host's last group was seen before, the host is skipped.
HostSkip ==
    /\ pc = "host"
    /\ hi <= Len(hosts)
    /\ LastGroup(hosts[hi]) \in Range(groups)
    /\ hi' = hi + 1
    /\ UNCHANGED <<fs, fs0, calls, console, pc, args, hosts, groups, variables, vi,
                   dups, di, out, cur>>

\* Lines 147-154: the group is recorded, the header printed and the host's
\* variables resolved.
HostBegin ==
    /\ pc = "host"
    /\ hi <= Len(hosts)
    /\ LastGroup(hosts[hi]) \notin Range(groups)
    /\ groups' = Append(groups, LastGroup(hosts[hi]))
    /\ out' = Append(out, Header(hosts[hi], LastGroup(hosts[hi])))
    /\ variables' = variable_sources(hosts[hi], args.variable)
    /\ vi' = 1
    /\ pc' = "var"
    /\ UNCHANGED <<fs, fs0, calls, console, args, hosts, hi, dups, di, cur>>

\* The loop of line 143 is over: run returns.
RunDone ==
    /\ pc = "host"
    /\ hi > Len(hosts)
    /\ pc' = "done"
    /\ UNCHANGED <<fs, fs0, calls, console, args, hosts, hi, groups, variables, vi,
                   dups, di, out, cur>>

SurfacedAll(name) == TRUE

\* Line 155
Surfaced(name) == name \notin INTERNAL_VARS

\* Line 155, false: an internal variable is passed over.
VarInternal ==
    /\ pc = "var"
    /\ vi <= Len(variables)
    /\ ~Surfaced(variables[vi].name)
    /\ vi' = vi + 1
    /\ UNCHANGED <<fs, fs0, calls, console, pc, args, hosts, hi, groups, variables,
                   dups, di, out, cur>>

TargetsAll(ds) == ds

\* dups[1:] of line 168
Targets(ds) == Tail(ds)

\* Lines 156-167 for one variable: its value line, its occurrences and the
\* head of its duplicate report; the loop of line 168 follows when there is
\* a report.
VarReport ==
    /\ pc = "var"
    /\ vi <= Len(variables)
    /\ Surfaced(variables[vi].name)
    /\ LET v == variables[vi]
           scan == args.verbosity >= 1 \/ args.check_duplicates
           occ == file_occurrences(hosts[hi], v.name, args.check_duplicates)
           report == scan /\ args.check_duplicates /\ Len(occ.dups) > 1
           printed ==
               (IF ~args.check_duplicates THEN <<ValueLine(v)>> ELSE <<>>)
               \o (IF scan /\ args.verbosity >= 1
                   THEN [i \in DOMAIN occ.files |-> FileLine(v.name, occ.files[i])]
                   ELSE <<>>)
               \o (IF report THEN <<OriginallyIn(v.name, occ.dups[1])>> ELSE <<>>)
       IN  /\ out' = out \o printed
           /\ cur' = [host |-> hosts[hi], name |-> v.name, scanned |-> scan,
                      dups |-> IF scan THEN occ.dups ELSE <<>>,
                      targets |-> <<>>, mark |-> Len(out)]
           /\ IF report
              THEN /\ dups' = occ.dups
                   /\ di' = 1
                   /\ pc' = "dup"
                   /\ vi' = vi
              ELSE /\ vi' = vi + 1
                   /\ UNCHANGED <<dups, di, pc>>
    /\ UNCHANGED <<fs, fs0, calls, console, args, hosts, hi, groups, variables>>

\* The loop of line 150 is over: on to the next host.
VarsEnd ==
    /\ pc = "var"
    /\ vi > Len(variables)
    /\ hi' = hi + 1
    /\ pc' = "host"
    /\ UNCHANGED <<fs, fs0, calls, console, args, hosts, groups, variables, vi,
                   dups, di, out, cur>>

\* Lines 169-171 with remove_duplicates: the duplicate is removed from its
\* file and printed as DELETED.
DupRemove ==
    /\ pc = "dup"
    /\ di <= Len(Targets(dups))
    /\ args.remove_duplicates
    /\ LET dup == Targets(dups)[di]
           name == variables[vi].name
       IN  /\ \E o \in Outcomes(fs[dup], Key(name)) : delete_var(dup, Key(name), o)
           /\ out' = Append(out, DuplicatedIn(name, dup, TRUE))
           /\ cur' = [cur EXCEPT !.targets = Append(@, dup)]
    /\ di' = di + 1
    /\ UNCHANGED <<fs0, pc, args, hosts, hi, groups, variables, vi, dups>>

\* Lines 169-171 without remove_duplicates: the duplicate is only printed.
DupKeep ==
    /\ pc = "dup"
    /\ di <= Len(Targets(dups))
    /\ ~args.remove_duplicates
    /\ out' = Append(out, DuplicatedIn(variables[vi].name, Targets(dups)[di], FALSE))
    /\ di' = di + 1
    /\ UNCHANGED <<fs, fs0, calls, console, pc, args, hosts, hi, groups, variables,
                   vi, dups, cur>>

\* The loop of line 168 is over: on to the next variable.
DupsEnd ==
    /\ pc = "dup"
    /\ di > Len(Targets(dups))
    /\ vi' = vi + 1
    /\ pc' = "var"
    /\ UNCHANGED <<fs, fs0, calls, console, args, hosts, hi, groups, variables,
                   dups, di, out, cur>>

Next ==
    \/ RunNoHosts
    \/ RunStart
    \/ HostSkip
    \/ HostBegin
    \/ RunDone
    \/ VarInternal
    \/ VarReport
    \/ VarsEnd
    \/ DupRemove
    \/ DupKeep
    \/ DupsEnd

Spec == Init /\ [][Next]_vars

(***************************************************************************)
(* Claims about run, under Spec                                            *)
(***************************************************************************)
Events(kinds) == {i \in DOMAIN out : out[i].kind \in kinds}

\* The events printed for the variable last processed.
CurEvents == SubSeq(out, cur.mark + 1, Len(out))

CurKinds(kind) == {i \in DOMAIN CurEvents : CurEvents[i].kind = kind}

BetweenVariables == pc \in {"var", "host", "done"}

\* C2: with duplicate removal over several entities, whatever delete_var
\* calls the run has made, every (entity, variable) that had a definition
\* before the run still has one in the file of its authoritative occurrence
\* (the first of its occurrences in precedence order).  Stated for the runs
\* in which every delete_var call succeeded.
C2_AuthoritativeKept ==
    (\A c \in DOMAIN calls : calls[c].outcome = "ok") =>
        \A h \in DOMAIN hosts : \A n \in {"a", "b"} :
            OccurrencesOn(fs0, hosts[h], n) # <<>> =>
                DefinesTop(fs[OccurrencesOn(fs0, hosts[h], n)[1]], n)

\* C5: for the variable last processed, with occurrence list dups: at most
\* one element, nothing is reported and delete_var is not called; two or
\* more, dups[0] is reported as original and the files passed to delete_var
\* are dups[1:], each once and in order, when both flags are set, and none
\* otherwise; dups[0] is never a target and a run without remove_duplicates
\* writes no file.
C5_RemovalTargets ==
    /\ ~(args.check_duplicates /\ args.remove_duplicates) => (fs = fs0 /\ calls = <<>>)
    /\ (BetweenVariables /\ cur.scanned) =>
        /\ Len(cur.dups) <= 1 =>
              /\ CurKinds("original") = {} /\ CurKinds("duplicate") = {}
              /\ cur.targets = <<>>
        /\ Len(cur.dups) >= 2 =>
              /\ \E i \in CurKinds("original") :
                    /\ CurEvents[i] = OriginallyIn(cur.name, cur.dups[1])
                    /\ CurKinds("original") = {i}
              /\ cur.targets =
                    IF args.check_duplicates /\ args.remove_duplicates
                    THEN Tail(cur.dups) ELSE <<>>
              /\ cur.dups[1] \notin Range(cur.targets)
              /\ Len(calls) >= Len(cur.targets)
              /\ \A t \in DOMAIN cur.targets :
                    LET c == calls[Len(calls) - Len(cur.targets) + t]
                    IN  c.path = cur.targets[t] /\ c.var = Key(cur.name)

C5_Witness ==
    /\ pc = "done"
    /\ cur.scanned
    /\ Len(cur.dups) = 3
    /\ cur.targets = Tail(cur.dups)
    /\ args.check_duplicates /\ args.remove_duplicates

\* The DELETED lines printed so far, in order.
DeletedLines ==
    LET IsDeleted(e) == e.kind = "duplicate" /\ e.deleted
    IN  SelectSeq(out, IsDeleted)

\* C7: a removal that failed is reported as a failure: no file is printed as
\* DELETED whose delete_var call failed.
C7_DeletedMeansRemoved ==
    \A i \in DOMAIN DeletedLines :
        /\ i <= Len(calls)
        /\ calls[i].path = DeletedLines[i].detail
        /\ calls[i].outcome = "ok"

\* C8: group membership does not decide which entities are processed: when
\* run returns, every entity the pattern matched has been reported.
C8_EveryHostProcessed ==
    pc = "done" =>
        \A h \in DOMAIN hosts :
            \E i \in Events({"header"}) : out[i].subject = hosts[h]

\* C9: when the pattern matches no entity, run fails at once: nothing has
\* been printed, resolved or scanned and no file has been touched.
C9_NoHostsFailsFirst ==
    (pc # "start" /\ get_hosts(args.host) = <<>>) =>
        /\ pc = "error"
        /\ out = <<>>
        /\ variables = <<>>
        /\ cur = NoVar
        /\ calls = <<>> /\ console = <<>>
        /\ fs = fs0

C9_Witness ==
    /\ pc = "error"
    /\ args.check_duplicates /\ args.remove_duplicates
    /\ \E p \in Paths : fs[p] # <<>>

\* C10: a variable whose name is in INTERNAL_VARS is never surfaced: no value
\* line, no occurrence listing, no duplicate report and no delete_var call,
\* however many files define it and whatever the flags.
C10_InternalNeverSurfaced ==
    /\ \A i \in DOMAIN out : out[i].kind # "header" => out[i].subject \notin INTERNAL_VARS
    /\ cur.name \notin INTERNAL_VARS
    /\ \A c \in DOMAIN calls : \A n \in Range(MagicNames) : calls[c].var # Key(n)

C10_Witness ==
    /\ pc = "done"
    /\ args.variable = "omit"
    /\ args.check_duplicates /\ args.remove_duplicates /\ args.verbosity = 1
    /\ \E h \in DOMAIN hosts :
          /\ Len(OccurrencesOn(fs0, hosts[h], "omit")) >= 2
          /\ \E i \in Events({"header"}) : out[i].subject = hosts[h]

====
